---- MODULE Spec2Model ----
(***************************************************************************)
(* The ImmoEliza data pipeline of immoelizaData.py: PostalDataProcessor    *)
(* (enrichment with INS codes and demographic features),                   *)
(* PostalCodeFormatter (postal codes of the names file) and                *)
(* PropertyDataMerger (top names per postal code, left-joined onto the     *)
(* listings), run in the order of the script's __main__ block.             *)
(*                                                                         *)
(* Files are tables of text cells; a text is a sequence of one-character   *)
(* strings.  pandas types a column when it reads it (ReadCsv) and renders  *)
(* the cells when it writes it (WriteCsv).  A typed cell is a record with  *)
(* a tag t: "int" (v), "float" (h, the value counted in halves), "nan",    *)
(* "inf", "none" (Python None) and "str" (s).                              *)
(***************************************************************************)
EXTENDS Integers, Sequences, FiniteSets, TLC

VARIABLES
    property_csv,     \* Step_1_Pre_Dataset.csv, as text
    postal_xlsx,      \* Step_1_Postal_Data.xlsx, as text
    ins_json,         \* Step_0_Code_INS_to_Postal.json: <<[ins_code, postal_list]>>
    names_src,        \* the names file read by step 2, as text
    pc,               \* position in the __main__ block
    exc,              \* the exception that ended the run, or NoExc
    property_data,    \* processor.property_data
    ins_to_postal,    \* processor.ins_to_postal
    postal_data_dict, \* processor.postal_data_dict
    formatted_names,  \* the data frame returned by format_postal_codes
    step2_csv,        \* Step_2_Dataset.csv
    names_csv,        \* names.csv written by step 2
    top_names_pivot,  \* the summary table merge_with_top_names joins
    out_csv           \* Propertities.csv

vars == <<property_csv, postal_xlsx, ins_json, names_src, pc, exc, property_data,
          ins_to_postal, postal_data_dict, formatted_names, step2_csv, names_csv,
          top_names_pivot, out_csv>>

---------------------------------------------------------------------------
(* Values *)

IntV(n) == [t |-> "int", v |-> n]
FloatV(h) == [t |-> "float", h |-> h]
NaN == [t |-> "nan"]
Inf == [t |-> "inf"]
None == [t |-> "none"]
StrV(s) == [t |-> "str", s |-> s]

Ok(v) == [ok |-> TRUE, v |-> v]
Raise(e) == [ok |-> FALSE, exc |-> e]

IsMissing(x) == x.t \in {"nan", "none"}

\* Equality of two cells as Python values of the same type
CellEq(a, b) ==
    /\ a.t = b.t
    /\ CASE a.t = "int" -> a.v = b.v
         [] a.t = "float" -> a.h = b.h
         [] a.t = "str" -> a.s = b.s
         [] OTHER -> TRUE

\* The numeric value of an int or a finite float, in halves
Halves(x) == IF x.t = "int" THEN 2 * x.v ELSE x.h

IsNumber(x) == x.t \in {"int", "float"}

\* Python's == between numbers (1 == 1.0); NaN equals nothing
NumEq(a, b) == IsNumber(a) /\ IsNumber(b) /\ Halves(a) = Halves(b)

---------------------------------------------------------------------------
(* Text *)

Digits == <<"0", "1", "2", "3", "4", "5", "6", "7", "8", "9">>

IsDigit(c) == \E d \in 1..Len(Digits) : Digits[d] = c

DigitVal(c) == (CHOOSE d \in 1..Len(Digits) : Digits[d] = c) - 1

AllDigits(s) == s # <<>> /\ \A i \in 1..Len(s) : IsDigit(s[i])

RECURSIVE LStrip(_)
LStrip(s) == IF s # <<>> /\ Head(s) = " " THEN LStrip(Tail(s)) ELSE s

RECURSIVE RStrip(_)
RStrip(s) ==
    IF s # <<>> /\ s[Len(s)] = " " THEN RStrip(SubSeq(s, 1, Len(s) - 1)) ELSE s

\* str.strip()
Strip(s) == RStrip(LStrip(s))

RECURSIVE ParseDigits(_)
ParseDigits(s) ==
    IF s = <<>> THEN 0
    ELSE 10 * ParseDigits(SubSeq(s, 1, Len(s) - 1)) + DigitVal(s[Len(s)])

\* int(s) for a str s: surrounding whitespace is ignored, the rest must be digits
PyIntOfStr(s) ==
    LET b == Strip(s) IN
    IF AllDigits(b) THEN Ok(ParseDigits(b)) ELSE Raise("ValueError")

\* int(x)
PyInt(x) ==
    CASE x.t = "int" -> Ok(x.v)
      [] x.t = "float" -> Ok(x.h \div 2)
      [] x.t = "nan" -> Raise("ValueError")
      [] x.t = "inf" -> Raise("OverflowError")
      [] x.t = "str" -> PyIntOfStr(x.s)
      [] OTHER -> Raise("TypeError")

\* str(n) for an int n >= 0
RECURSIVE PyStr(_)
PyStr(n) ==
    IF n < Len(Digits) THEN <<Digits[n + 1]>>
    ELSE PyStr(n \div Len(Digits)) \o <<Digits[(n % Len(Digits)) + 1]>>

\* x.split(",")[0]
RECURSIVE SplitFirst(_)
SplitFirst(s) ==
    IF s = <<>> \/ Head(s) = "," THEN <<>> ELSE <<Head(s)>> \o SplitFirst(Tail(s))

\* s in lst, for a list of str
Contains(lst, s) == \E k \in 1..Len(lst) : lst[k] = s

---------------------------------------------------------------------------
(* Tables: [cols |-> the column names, rows |-> <<row>>], a row a function *)
(* from the column names to cells                                         *)

\* Frame(cols, rows) is [cols |-> cols, rows |-> rows]; written with @@ and \o,
\* which leave each row and the sequence of rows unchanged, it is computed once
Frame(cols, rows) ==
    [cols |-> cols, rows |-> [i \in 1..Len(rows) |-> rows[i] @@ <<>>] \o <<>>]

Column(tbl, c) == [i \in 1..Len(tbl.rows) |-> tbl.rows[i][c]] \o <<>>

\* df[c] = vals: the column is added, or replaced when df already has one named c
SetColumn(tbl, c, vals) ==
    Frame(tbl.cols \cup {c},
          [i \in 1..Len(tbl.rows) |->
              [k \in tbl.cols \cup {c} |-> IF k = c THEN vals[i] ELSE tbl.rows[i][k]]])

\* The value pandas' parser reads in one text cell, taken alone
ParseCell(s) ==
    LET b == Strip(s) IN
    IF s = <<>> THEN NaN
    ELSE IF AllDigits(b) THEN IntV(ParseDigits(b))
    ELSE IF b = <<"i", "n", "f">> THEN Inf
    ELSE IF /\ Len(b) >= 3
            /\ AllDigits(SubSeq(b, 1, Len(b) - 2))
            /\ b[Len(b) - 1] = "."
            /\ b[Len(b)] \in {"0", "5"}
         THEN FloatV(2 * ParseDigits(SubSeq(b, 1, Len(b) - 2))
                     + (IF b[Len(b)] = "5" THEN 1 ELSE 0))
    ELSE StrV(s)

\* An int among floats or missing values is held as a float, None as NaN
AsFloat(x) ==
    IF x.t = "int" THEN FloatV(2 * x.v) ELSE IF x.t = "none" THEN NaN ELSE x

\* The dtype of a column read from text: int64 when every cell is an integer,
\* float64 when every cell is a number or empty, object (the raw strings,
\* NaN for an empty cell) otherwise
ReadColumn(texts) ==
    LET parsed == [i \in 1..Len(texts) |-> ParseCell(texts[i])] \o <<>> IN
    IF \A i \in 1..Len(texts) : parsed[i].t = "int" THEN parsed
    ELSE IF \A i \in 1..Len(texts) : parsed[i].t # "str"
         THEN [i \in 1..Len(texts) |-> AsFloat(parsed[i])]
    ELSE [i \in 1..Len(texts) |-> IF texts[i] = <<>> THEN NaN ELSE StrV(texts[i])]

\* pd.read_csv / pd.read_excel
ReadCsv(file) ==
    LET typed == [c \in file.cols |-> ReadColumn(Column(file, c)) \o <<>>] @@ <<>> IN
    Frame(file.cols, [i \in 1..Len(file.rows) |-> [c \in file.cols |-> typed[c][i]]])

\* The text to_csv writes for one cell
WriteCell(x) ==
    CASE x.t = "int" -> PyStr(x.v)
      [] x.t = "float" ->
            PyStr(x.h \div 2) \o <<".">> \o (IF x.h % 2 = 0 THEN <<"0">> ELSE <<"5">>)
      [] x.t = "inf" -> <<"i", "n", "f">>
      [] x.t = "str" -> x.s
      [] OTHER -> <<>>

\* DataFrame.to_csv(path, index=False)
WriteCsv(tbl) ==
    Frame(tbl.cols,
          [i \in 1..Len(tbl.rows) |-> [c \in tbl.cols |-> WriteCell(tbl.rows[i][c])]])

\* The dtype Series.apply gives the collected results: int64 when all are ints,
\* object when there is no number at all, float64 (None as NaN) otherwise
InferObjects(cells) ==
    IF \A i \in 1..Len(cells) : cells[i].t = "int" THEN cells
    ELSE IF \A i \in 1..Len(cells) : cells[i].t \in {"none", "str"} THEN cells
    ELSE IF \E i \in 1..Len(cells) : cells[i].t = "str" THEN cells
    ELSE [i \in 1..Len(cells) |-> AsFloat(cells[i])]

\* Series.apply: the per-element results of the applied function, in order,
\* collected into a column; the first exception ends it
Apply(results) ==
    LET res == results \o <<>>
        bad == {i \in 1..Len(res) : ~res[i].ok}
    IN  IF bad = {} THEN Ok(InferObjects([i \in 1..Len(res) |-> res[i].v]))
        ELSE Raise(res[CHOOSE i \in bad : \A j \in bad : i <= j].exc)

---------------------------------------------------------------------------
(* PostalDataProcessor *)

\* dict.get(key) on postal_data_dict, a sequence of [key, rec]; the entry found,
\* as a set with at most one element
DictFind(d, key) == {j \in 1..Len(d) : NumEq(d[j].key, key)}

\* _create_postal_data_dict: set_index('Code_INS')[[...]].to_dict(orient='index')
CreatePostalDataDict(postal_data) ==
    IF "Code_INS" \notin postal_data.cols THEN Raise("KeyError")
    ELSE IF ~({"Population", "Wealth_Index", "Density"} \subseteq postal_data.cols)
         THEN Raise("KeyError")
    ELSE IF \E i, j \in 1..Len(postal_data.rows) :
                /\ i # j
                /\ CellEq(postal_data.rows[i]["Code_INS"], postal_data.rows[j]["Code_INS"])
         THEN Raise("ValueError")
    ELSE Ok([i \in 1..Len(postal_data.rows) |->
               [key |-> postal_data.rows[i]["Code_INS"],
                rec |-> [c \in {"Population", "Wealth_Index", "Density"} |->
                           postal_data.rows[i][c]]]])

\* The for loop of _get_ins_code from entry i on; int(postal_code) is evaluated
\* in every iteration, so never on an empty mapping
RECURSIVE ScanInsToPostal(_, _, _)
ScanInsToPostal(mapping, postal_code, i) ==
    IF i > Len(mapping) THEN Ok(None)
    ELSE LET p == PyInt(postal_code) IN
         IF ~p.ok THEN Raise(p.exc)
         ELSE IF Contains(mapping[i].postal_list, PyStr(p.v))
              THEN LET a == PyIntOfStr(mapping[i].ins_code) IN
                   IF a.ok THEN Ok(IntV(a.v)) ELSE Raise(a.exc)
         ELSE ScanInsToPostal(mapping, postal_code, i + 1)

\* _get_ins_code answering from the end of the mapping: the last area listing the
\* code, as a lookup table filled entry after entry would
GetInsCodeLast(mapping, postal_code) ==
    ScanInsToPostal([i \in 1..Len(mapping) |-> mapping[Len(mapping) + 1 - i]],
                    postal_code, 1)

\* _get_ins_code
GetInsCode(mapping, postal_code) == ScanInsToPostal(mapping, postal_code, 1)

\* _get_population, _get_wealth_index, _get_density:
\* postal_data_dict.get(ins_code, {}).get(field)
GetField(d, field, ins_code) ==
    LET found == DictFind(d, ins_code) IN
    IF found = {} THEN Ok(None) ELSE Ok(d[CHOOSE j \in found : TRUE].rec[field])

\* enrich_property_data: the table returned, or the exception raised
EnrichPropertyData(df, mapping, d) ==
    IF "postal_code" \notin df.cols THEN Raise("KeyError")
    ELSE LET postal == Column(df, "postal_code")
             ins == Apply([i \in 1..Len(postal) |-> GetInsCode(mapping, postal[i])])
         IN  IF ~ins.ok THEN Raise(ins.exc)
             ELSE LET codes == ins.v
                      Get(field) ==
                          Apply([i \in 1..Len(codes) |-> GetField(d, field, codes[i])]).v
                      df1 == SetColumn(df, "INS_Code", codes)
                      df2 == SetColumn(df1, "Population", Get("Population"))
                      df3 == SetColumn(df2, "Wealth_Index", Get("Wealth_Index"))
                      df4 == SetColumn(df3, "Density", Get("Density"))
                  IN  Ok(df4)

---------------------------------------------------------------------------
(* PostalCodeFormatter *)

\* The lambda of format_postal_codes
FormatPostalCode(x) ==
    IF x.t = "str"
    THEN LET r == PyIntOfStr(Strip(SplitFirst(x.s))) IN
         IF r.ok THEN Ok(IntV(r.v)) ELSE Raise(r.exc)
    ELSE IF x.t \in {"int", "float", "inf"}
         THEN LET r == PyInt(x) IN IF r.ok THEN Ok(IntV(r.v)) ELSE Raise(r.exc)
    ELSE Ok(NaN)

\* format_postal_codes
FormatPostalCodes(df, postal_code_column) ==
    IF postal_code_column \notin df.cols THEN Raise("KeyError")
    ELSE LET col == Column(df, postal_code_column)
             r == Apply([i \in 1..Len(col) |-> FormatPostalCode(col[i])])
         IN
         IF r.ok THEN Ok(SetColumn(df, postal_code_column, r.v)) ELSE Raise(r.exc)

---------------------------------------------------------------------------
(* PropertyDataMerger *)

\* The n of nlargest(5, "MS_FREQUENCY")
TopK == 5

Min(a, b) == IF a <= b THEN a ELSE b

\* The distinct values of a set of integers, ascending
RECURSIVE Ascending(_)
Ascending(S) ==
    IF S = {} THEN <<>>
    ELSE LET m == CHOOSE x \in S : \A y \in S : x <= y IN <<m>> \o Ascending(S \ {m})

\* groupby(c): the group keys (missing keys are dropped), sorted
GroupKeys(df, c) ==
    Ascending({Halves(df.rows[i][c]) : i \in {j \in 1..Len(df.rows) : IsNumber(df.rows[j][c])}})

\* The rows of one group, in the order of the frame
GroupRows(df, c, key) ==
    LET InGroup(i) == IsNumber(df.rows[i][c]) /\ Halves(df.rows[i][c]) = key IN
    SelectSeq([i \in 1..Len(df.rows) |-> i], InGroup)

\* i is put after every row already placed whose value is not smaller
RECURSIVE InsertDescending(_, _, _, _)
InsertDescending(df, c, sorted, i) ==
    IF sorted = <<>> THEN <<i>>
    ELSE IF Halves(df.rows[Head(sorted)][c]) >= Halves(df.rows[i][c])
         THEN <<Head(sorted)>> \o InsertDescending(df, c, Tail(sorted), i)
    ELSE <<i>> \o sorted

\* The rows idx by column c descending, equal values in their first order
RECURSIVE SortDescending(_, _, _)
SortDescending(df, c, idx) ==
    IF idx = <<>> THEN <<>>
    ELSE InsertDescending(df, c, SortDescending(df, c, SubSeq(idx, 1, Len(idx) - 1)),
                          idx[Len(idx)])

\* nlargest with keep='last': among equal values the later rows come first
NLargestKeepLast(df, c, idx, n) ==
    LET sorted == SortDescending(df, c, [i \in 1..Len(idx) |-> idx[Len(idx) + 1 - i]])
    IN  SubSeq(sorted, 1, Min(n, Len(sorted)))

\* group.nlargest(n, c), keep='first'
NLargest(df, c, idx, n) ==
    LET sorted == SortDescending(df, c, idx) IN SubSeq(sorted, 1, Min(n, Len(sorted)))

\* str(x) inside the f-string
RenderCell(x) ==
    IF x.t = "nan" THEN <<"n", "a", "n">>
    ELSE IF x.t = "none" THEN <<"N", "o", "n", "e">>
    ELSE WriteCell(x)

\* f"{row['TX_FST_NAME']} ({row['MS_FREQUENCY']})"
RenderRow(row) ==
    RenderCell(row["TX_FST_NAME"]) \o <<" ", "(">> \o RenderCell(row["MS_FREQUENCY"])
        \o <<")">>

\* ", ".join(...) over the rows idx
RECURSIVE JoinRows(_, _)
JoinRows(df, idx) ==
    IF idx = <<>> THEN <<>>
    ELSE IF Len(idx) = 1 THEN RenderRow(df.rows[idx[1]])
    ELSE RenderRow(df.rows[Head(idx)]) \o <<",", " ">> \o JoinRows(df, Tail(idx))

\* top_names followed by top_names_pivot: per postal code, the TopK rows of its
\* group rendered into one text
TopNamesPivot(df) ==
    IF "postal_code" \notin df.cols THEN Raise("KeyError")
    ELSE IF "MS_FREQUENCY" \notin df.cols \/ "TX_FST_NAME" \notin df.cols
         THEN Raise("KeyError")
    ELSE IF \E i \in 1..Len(df.rows) : ~IsNumber(df.rows[i]["MS_FREQUENCY"])
         THEN Raise("TypeError")
    ELSE LET keys == GroupKeys(df, "postal_code") IN
         Ok(Frame({"postal_code", "top_names"},
                  [g \in 1..Len(keys) |->
                 LET members == GroupRows(df, "postal_code", keys[g]) IN
                 [postal_code |-> df.rows[members[1]]["postal_code"],
                  top_names |->
                      StrV(JoinRows(df, NLargest(df, "MS_FREQUENCY", members, TopK)))]]))

RECURSIVE Flatten(_)
Flatten(seqs) == IF seqs = <<>> THEN <<>> ELSE Head(seqs) \o Flatten(Tail(seqs))

\* The columns of left.merge(right, on="postal_code"): a column both frames have
\* besides the key gets the suffixes _x and _y
LeftName(left, c) == IF c = "top_names" THEN "top_names_x" ELSE c
RightName(left) == IF "top_names" \in left.cols THEN "top_names_y" ELSE "top_names"

\* One row of the left frame with the value of the right frame's column
JoinedRow(left, row, val) ==
    [k \in {LeftName(left, c) : c \in left.cols} \cup {RightName(left)} |->
        IF k = RightName(left) THEN val
        ELSE IF k = "top_names_x" THEN row["top_names"]
        ELSE row[k]]

\* The right rows whose key equals the key of a left row, in order
Matches(right, key) ==
    LET Hit(j) == NumEq(right.rows[j]["postal_code"], key) IN
    SelectSeq([j \in 1..Len(right.rows) |-> j], Hit)

\* The merge with how="inner": a left row without match is dropped
MergeInner(left, right) ==
    IF "postal_code" \notin left.cols THEN Raise("KeyError")
    ELSE IF \E i \in 1..Len(left.rows) : left.rows[i]["postal_code"].t = "str"
         THEN Raise("ValueError")
    ELSE Ok(Frame({LeftName(left, c) : c \in left.cols} \cup {RightName(left)},
                  Flatten([i \in 1..Len(left.rows) |->
                 LET m == Matches(right, left.rows[i]["postal_code"]) IN
                 [k \in 1..Len(m) |->
                     JoinedRow(left, left.rows[i], right.rows[m[k]]["top_names"])]])))

\* df_properties.merge(top_names_pivot, on="postal_code", how="left"): one row per
\* match of a left row, one row with a missing value for a left row without match.
\* The right keys are numbers (names.csv holds formatted postal codes); pandas
\* refuses to merge an object column of strings with a numeric one (ValueError)
MergeLeft(left, right) ==
    IF "postal_code" \notin left.cols THEN Raise("KeyError")
    ELSE IF \E i \in 1..Len(left.rows) : left.rows[i]["postal_code"].t = "str"
         THEN Raise("ValueError")
    ELSE Ok(Frame({LeftName(left, c) : c \in left.cols} \cup {RightName(left)},
                  Flatten([i \in 1..Len(left.rows) |->
                 LET m == Matches(right, left.rows[i]["postal_code"]) IN
                 IF m = <<>> THEN <<JoinedRow(left, left.rows[i], NaN)>>
                 ELSE [k \in 1..Len(m) |->
                         JoinedRow(left, left.rows[i], right.rows[m[k]]["top_names"])]])))

\* merge_with_top_names up to the merge: [pivot, merged] or the exception
MergeWithTopNames(properties_file, names_file) ==
    LET df_properties == ReadCsv(properties_file)
        df_new_data == ReadCsv(names_file)
        pivot == TopNamesPivot(df_new_data)
    IN  IF ~pivot.ok THEN Raise(pivot.exc)
        ELSE LET merged == MergeLeft(df_properties, pivot.v) IN
             IF ~merged.ok THEN Raise(merged.exc)
             ELSE Ok([pivot |-> pivot.v, merged |-> merged.v])

---------------------------------------------------------------------------
(* The input files *)

MaxRows == 2      \* rows of a listings file, where the listings vary
MaxAreas == 2     \* entries of the INS mapping, where the mapping varies
MaxDemo == 2      \* rows of the demographic file, where it varies
MaxNames == 6     \* rows of the names file, where the frequencies vary
MaxRawNames == 2  \* rows of the names file, where the raw postal codes vary

T7 == <<"7">>
T8 == <<"8">>
T12 == <<"1", "2">>
Empty == <<>>
T9c == <<"9", ",", " ">>
T7c8 == <<"7", ",", " ", "8">>
TS8 == <<" ", "8">>
TA == <<"a">>
TComma == <<",">>
T7p5 == <<"7", ".", "5">>
TInf == <<"i", "n", "f">>

SeqsUpTo(S, n) == UNION {[1..k -> S] : k \in 1..n}

DropColumn(file, c) ==
    [cols |-> file.cols \ {c},
     rows |-> [i \in 1..Len(file.rows) |-> [k \in file.cols \ {c} |-> file.rows[i][k]]]]

WithColumn(file, c, text) ==
    [cols |-> file.cols \cup {c},
     rows |-> [i \in 1..Len(file.rows) |->
                 [k \in file.cols \cup {c} |-> IF k = c THEN text ELSE file.rows[i][k]]]]

\* A listings file: the postal codes given, and a price that tells the rows apart
ListingFile(postals) ==
    [cols |-> {"postal_code", "price"},
     rows |-> [i \in 1..Len(postals) |->
                 [postal_code |-> postals[i], price |-> PyStr(10 * i)]]]

ListingPostals == {T7, T8, T12, Empty, T9c, T7c8}

ListingsWide == {ListingFile(p) : p \in SeqsUpTo(ListingPostals, MaxRows)}

ListingInts == ListingFile(<<T7, T12, T7, T8>>)

ListingsCore ==
    {ListingInts,
     ListingFile(<<T7, Empty>>),
     ListingFile(<<T9c, T7>>),
     WithColumn(ListingInts, "INS_Code", <<"9", "9">>),
     WithColumn(ListingInts, "top_names", <<"x">>),
     DropColumn(ListingInts, "postal_code")}

\* The INS mapping in the order of the JSON object, its keys distinct
Entry(k, l) == [ins_code |-> k, postal_list |-> l]

InsKeys == {<<"1">>, <<"2">>, <<"3">>}

PostalLists == {<<>>, <<T7>>, <<T7, T8>>, <<T12, <<"0", "7">>>>}

MappingsWide ==
    {<<>>} \cup
    {m \in SeqsUpTo({Entry(k, l) : k \in InsKeys, l \in PostalLists}, MaxAreas) :
        \A i, j \in 1..Len(m) : i # j => m[i].ins_code # m[j].ins_code}

MappingOne == <<Entry(<<"1">>, <<T7, T12>>)>>

MappingsCore ==
    {<<>>, MappingOne, <<Entry(<<"1">>, <<T7>>), Entry(<<"2">>, <<T7, T8>>)>>}

\* A demographic row of area k: all three values, no population, or no value
DemoRow(k, shape) ==
    [Code_INS |-> k,
     Population |-> IF shape = "full" THEN <<"5", "0">> \o k ELSE <<>>,
     Wealth_Index |-> IF shape = "none" THEN <<>> ELSE k \o <<".", "5">>,
     Density |-> IF shape = "none" THEN <<>> ELSE <<"3">> \o k]

DemoFile(rows) ==
    [cols |-> {"Code_INS", "Population", "Wealth_Index", "Density"}, rows |-> rows]

DemoBoth == DemoFile(<<DemoRow(<<"1">>, "full"), DemoRow(<<"2">>, "full")>>)

DemoCore == {DemoBoth, DemoFile(<<DemoRow(<<"2">>, "nopop")>>)}

DemoWide ==
    {DemoFile(<<>>)} \cup
    {DemoFile(r) :
        r \in SeqsUpTo({DemoRow(k, sh) : k \in {<<"1">>, <<"2">>},
                                          sh \in {"full", "nopop", "none"}}, MaxDemo)} \cup
    {DropColumn(DemoBoth, c) : c \in DemoBoth.cols}

\* A names file: a first name per row in the order of the alphabet
Letters == <<"A", "B", "C", "D", "E", "F", "G", "H">>

NamesFile(postals, freqs) ==
    [cols |-> {"postal_code", "TX_FST_NAME", "MS_FREQUENCY"},
     rows |-> [i \in 1..Len(postals) |->
                 [postal_code |-> postals[i],
                  TX_FST_NAME |-> <<Letters[i]>>,
                  MS_FREQUENCY |-> PyStr(freqs[i])]]]

NamesThree == NamesFile(<<T7, T7, T8>>, <<5, 8, 8>>)

Freqs == {5, 8, 10}

\* The frequencies vary; the rows share one postal code, or alternate between two
NamesWide ==
    {NamesFile([i \in 1..Len(f) |-> IF alt /\ i % 2 = 0 THEN T8 ELSE T7], f) :
        f \in SeqsUpTo(Freqs, MaxNames), alt \in BOOLEAN}

NamePostals == {T7, T8, Empty, T7c8, TS8, TA, TComma, T7p5, TInf}

\* The raw postal codes vary.  A names file without any postal code is left out:
\* what pandas makes of a groupby without groups depends on its version
NamesRaw ==
    {NamesFile(p, [i \in 1..Len(p) |-> 5 + i]) :
        p \in {q \in SeqsUpTo(NamePostals, MaxRawNames) : \E i \in 1..Len(q) : q[i] # Empty}}
    \cup {DropColumn(NamesThree, c) : c \in NamesThree.cols}

---------------------------------------------------------------------------
(* The run of the __main__ block *)

NoFile == [cols |-> {}, rows |-> <<>>]
NoExc == [type |-> "none", at |-> "none"]

Exists(file) == file.cols # {}

Init ==
    /\ \/ /\ property_csv \in ListingsWide
          /\ ins_json \in MappingsCore
          /\ postal_xlsx \in DemoCore
          /\ names_src = NamesThree
       \/ /\ property_csv \in ListingsCore
          /\ ins_json \in MappingsWide
          /\ postal_xlsx = DemoBoth
          /\ names_src = NamesThree
       \/ /\ property_csv \in {ListingInts, ListingFile(<<T7, Empty>>)}
          /\ ins_json \in MappingsCore
          /\ postal_xlsx \in DemoWide
          /\ names_src = NamesThree
       \/ /\ property_csv = ListingFile(<<T8, T12, T7>>)
          /\ ins_json = MappingOne
          /\ postal_xlsx = DemoBoth
          /\ names_src \in NamesWide
       \/ /\ property_csv = ListingInts
          /\ ins_json = MappingOne
          /\ postal_xlsx = DemoBoth
          /\ names_src \in NamesRaw
    /\ pc = "start"
    /\ exc = NoExc
    /\ property_data = NoFile
    /\ ins_to_postal = <<>>
    /\ postal_data_dict = <<>>
    /\ formatted_names = NoFile
    /\ step2_csv = NoFile
    /\ names_csv = NoFile
    /\ top_names_pivot = NoFile
    /\ out_csv = NoFile

Abort(type, at) ==
    /\ pc' = "aborted"
    /\ exc' = [type |-> type, at |-> at]

\* processor = PostalDataProcessor(...)
NewProcessor ==
    /\ pc = "start"
    /\ LET d == CreatePostalDataDict(ReadCsv(postal_xlsx)) IN
       IF d.ok
       THEN /\ property_data' = ReadCsv(property_csv)
            /\ ins_to_postal' = ins_json
            /\ postal_data_dict' = d.v
            /\ pc' = "constructed"
            /\ exc' = exc
       ELSE /\ Abort(d.exc, "__init__")
            /\ UNCHANGED <<property_data, ins_to_postal, postal_data_dict>>
    /\ UNCHANGED <<property_csv, postal_xlsx, ins_json, names_src, formatted_names,
                   step2_csv, names_csv, top_names_pivot, out_csv>>

\* enriched_data = processor.enrich_property_data()
Enrich ==
    /\ pc = "constructed"
    /\ LET r == EnrichPropertyData(property_data, ins_to_postal, postal_data_dict) IN
       IF r.ok
       THEN /\ property_data' = r.v
            /\ pc' = "enriched"
            /\ exc' = exc
       ELSE /\ Abort(r.exc, "enrich_property_data")
            /\ UNCHANGED property_data
    /\ UNCHANGED <<property_csv, postal_xlsx, ins_json, names_src, ins_to_postal,
                   postal_data_dict, formatted_names, step2_csv, names_csv,
                   top_names_pivot, out_csv>>

\* processor.save_enriched_data("Step_2_Dataset.csv")
SaveEnriched ==
    /\ pc = "enriched"
    /\ step2_csv' = WriteCsv(property_data)
    /\ pc' = "step2_saved"
    /\ UNCHANGED <<property_csv, postal_xlsx, ins_json, names_src, exc, property_data,
                   ins_to_postal, postal_data_dict, formatted_names, names_csv,
                   top_names_pivot, out_csv>>

\* df_names = pd.read_csv(...); formatted_names = format_postal_codes(df_names, ...)
FormatNames ==
    /\ pc = "step2_saved"
    /\ LET r == FormatPostalCodes(ReadCsv(names_src), "postal_code") IN
       IF r.ok
       THEN /\ formatted_names' = r.v
            /\ pc' = "formatted"
            /\ exc' = exc
       ELSE /\ Abort(r.exc, "format_postal_codes")
            /\ UNCHANGED formatted_names
    /\ UNCHANGED <<property_csv, postal_xlsx, ins_json, names_src, property_data,
                   ins_to_postal, postal_data_dict, step2_csv, names_csv,
                   top_names_pivot, out_csv>>

\* PostalCodeFormatter.save_formatted_data(formatted_names, "names.csv")
SaveFormatted ==
    /\ pc = "formatted"
    /\ names_csv' = WriteCsv(formatted_names)
    /\ pc' = "names_saved"
    /\ UNCHANGED <<property_csv, postal_xlsx, ins_json, names_src, exc, property_data,
                   ins_to_postal, postal_data_dict, formatted_names, step2_csv,
                   top_names_pivot, out_csv>>

\* PropertyDataMerger.merge_with_top_names("Step_2_Dataset.csv", "names.csv", ...)
Merge ==
    /\ pc = "names_saved"
    /\ LET r == MergeWithTopNames(step2_csv, names_csv) IN
       IF r.ok
       THEN /\ top_names_pivot' = r.v.pivot
            /\ out_csv' = WriteCsv(r.v.merged)
            /\ pc' = "done"
            /\ exc' = exc
       ELSE /\ Abort(r.exc, "merge_with_top_names")
            /\ UNCHANGED <<top_names_pivot, out_csv>>
    /\ UNCHANGED <<property_csv, postal_xlsx, ins_json, names_src, property_data,
                   ins_to_postal, postal_data_dict, formatted_names, step2_csv,
                   names_csv>>

Next ==
    \/ NewProcessor
    \/ Enrich
    \/ SaveEnriched
    \/ FormatNames
    \/ SaveFormatted
    \/ Merge

Spec == Init /\ [][Next]_vars

---------------------------------------------------------------------------
(* What the claims speak of *)

\* The listings, the demographic table and the names as the run loads them
Listings == ReadCsv(property_csv)
Demographics == ReadCsv(postal_xlsx)

AddedColumns == {"INS_Code", "Population", "Wealth_Index", "Density", "top_names"}

At(where) == pc = "aborted" /\ exc.at = where

EnrichReturned ==
    \/ pc \in {"enriched", "step2_saved", "formatted", "names_saved", "done"}
    \/ At("format_postal_codes")
    \/ At("merge_with_top_names")

EnrichCalled == EnrichReturned \/ At("enrich_property_data")

FormatReturned == pc \in {"formatted", "names_saved", "done"} \/ At("merge_with_top_names")

FormatCalled == FormatReturned \/ At("format_postal_codes")

MergeCalled == pc = "done" \/ At("merge_with_top_names")

ListingsHavePostalCode == "postal_code" \in property_csv.cols

NamesHaveColumns == {"postal_code", "TX_FST_NAME", "MS_FREQUENCY"} \subseteq names_src.cols

\* An integer, also when its column holds it as a float
IsInteger(x) == x.t = "int" \/ (x.t = "float" /\ x.h % 2 = 0)

\* The entries of the mapping whose list holds the string form of the integer x
AreasOf(x) == {j \in 1..Len(ins_json) : Contains(ins_json[j].postal_list, PyStr(Halves(x) \div 2))}

First(S) == CHOOSE j \in S : \A k \in S : j <= k

AreaCode(j) == IntV(PyIntOfStr(ins_json[j].ins_code).v)

\* The demographic rows keyed by area a
RecordsOf(a) ==
    {r \in 1..Len(Demographics.rows) : NumEq(Demographics.rows[r]["Code_INS"], a)}

\* A derived value equals the demographic value: both missing, or the same number
SameValue(x, y) == (IsMissing(x) /\ IsMissing(y)) \/ NumEq(x, y)

\* Row i of the enriched table carries the demographic values of area a
HasDemographicsOf(i, a) ==
    \A c \in {"Population", "Wealth_Index", "Density"} :
        IF RecordsOf(a) = {} THEN IsMissing(property_data.rows[i][c])
        ELSE \A r \in RecordsOf(a) :
                SameValue(property_data.rows[i][c], Demographics.rows[r][c])

HasNoArea(i) ==
    \A c \in {"INS_Code", "Population", "Wealth_Index", "Density"} :
        IsMissing(property_data.rows[i][c])

---------------------------------------------------------------------------
(* C9: for an integer postal code, _get_ins_code returns the area code of the   *)
(* first entry of the mapping, in its iteration order, whose list holds the     *)
(* string form of the code, and missing when no list holds it; rows with the    *)
(* same postal code get the same answer.                                        *)
C9_FirstAreaWins ==
    EnrichReturned =>
        LET L == Listings IN
        \A i \in 1..Len(L.rows) :
            LET x == L.rows[i]["postal_code"]
                ins == property_data.rows[i]["INS_Code"]
                areas == AreasOf(x)
            IN  IsInteger(x) =>
                  /\ IF areas = {} THEN IsMissing(ins)
                     ELSE NumEq(ins, AreaCode(First(areas)))
                  /\ \A j \in 1..Len(L.rows) :
                        NumEq(L.rows[j]["postal_code"], x) =>
                            SameValue(property_data.rows[j]["INS_Code"], ins)

\* A run where a postal code listed under two areas was resolved
C9_Witness ==
    /\ EnrichReturned
    /\ LET L == Listings IN
       \E i \in 1..Len(L.rows) :
          LET x == L.rows[i]["postal_code"] IN
          /\ IsInteger(x)
          /\ Cardinality(AreasOf(x)) >= 2
          /\ NumEq(property_data.rows[i]["INS_Code"], AreaCode(First(AreasOf(x))))

---------------------------------------------------------------------------
(* The names of one postal code, ranked *)

\* The rows of the names table N with the postal code of row i
NameGroup(N, i) ==
    {j \in 1..Len(N.rows) : NumEq(N.rows[j]["postal_code"], N.rows[i]["postal_code"])}

NameFreq(N, i) == Halves(N.rows[i]["MS_FREQUENCY"])

\* 1 + the number of rows of the group that come before row i: those of a higher
\* frequency, and those of the same frequency earlier in the table
NameRank(N, i) ==
    1 + Cardinality({j \in NameGroup(N, i) :
                        \/ NameFreq(N, j) > NameFreq(N, i)
                        \/ (NameFreq(N, j) = NameFreq(N, i) /\ j < i)})

\* The rows of ranks 1 .. min(k, group size), by rank
TopRanked(N, i, k) ==
    [r \in 1..Min(k, Cardinality(NameGroup(N, i))) |->
        CHOOSE j \in NameGroup(N, i) : NameRank(N, j) = r]

\* The number of entries of a rendered summary: one opening bracket each
Entries(text) == Cardinality({k \in 1..Len(text) : text[k] = "("})

(* C5: for every postal code with at least one record, the summary lists         *)
(* min(5, group size) records: those of the highest frequencies, by descending   *)
(* frequency, equal frequencies in the order of the input, both in the choice    *)
(* of the records and in the rendered order; and there is a summary for no       *)
(* other postal code.                                                            *)
C5_TopFiveByFrequency ==
    pc = "done" =>
        LET N == ReadCsv(names_csv)
            P == top_names_pivot
        IN  /\ \A i \in 1..Len(N.rows) :
                  IsNumber(N.rows[i]["postal_code"]) =>
                      \E g \in 1..Len(P.rows) :
                          /\ NumEq(P.rows[g]["postal_code"], N.rows[i]["postal_code"])
                          /\ P.rows[g]["top_names"] = StrV(JoinRows(N, TopRanked(N, i, 5)))
                          /\ Entries(P.rows[g]["top_names"].s)
                                = Min(5, Cardinality(NameGroup(N, i)))
            /\ \A g \in 1..Len(P.rows) :
                  /\ \E i \in 1..Len(N.rows) :
                        NumEq(P.rows[g]["postal_code"], N.rows[i]["postal_code"])
                  /\ \A h \in 1..Len(P.rows) :
                        NumEq(P.rows[g]["postal_code"], P.rows[h]["postal_code"]) => g = h

\* A run where a group of more than five records was cut between two records of
\* the same frequency
C5_Witness ==
    /\ pc = "done"
    /\ LET N == ReadCsv(names_csv) IN
       \E i, j \in 1..Len(N.rows) :
          /\ j \in NameGroup(N, i)
          /\ NameFreq(N, i) = NameFreq(N, j)
          /\ NameRank(N, i) <= 5
          /\ NameRank(N, j) > 5
          /\ \E g \in 1..Len(top_names_pivot.rows) :
                /\ NumEq(top_names_pivot.rows[g]["postal_code"], N.rows[i]["postal_code"])
                /\ Entries(top_names_pivot.rows[g]["top_names"].s) = 5

---------------------------------------------------------------------------
(* The fields of the listings in a table made from them *)

\* Table T has the rows of the listings, in their order, with the same values in
\* the columns cols
KeepsFields(T, cols) ==
    LET L == Listings IN
    /\ Len(T.rows) = Len(L.rows)
    /\ \A i \in 1..Len(L.rows) : \A c \in cols :
          c \in T.cols /\ CellEq(T.rows[i][c], L.rows[i][c])

(* C8 as stated: after enrich_property_data and merge_with_top_names every field  *)
(* the input listing had, a field named like an added column included, has the    *)
(* value it had.                                                                  *)
C8_EveryInputFieldKept ==
    /\ EnrichReturned => KeepsFields(property_data, property_csv.cols)
    /\ pc = "done" => KeepsFields(ReadCsv(out_csv), property_csv.cols)

(* C8 amended: every field the input listing had under a name other than          *)
(* INS_Code, Population, Wealth_Index, Density and top_names has the value it     *)
(* had, in every row, after enrich_property_data and after the merge.             *)
C8_OtherInputFieldsKept ==
    /\ EnrichReturned => KeepsFields(property_data, property_csv.cols \ AddedColumns)
    /\ pc = "done" => KeepsFields(ReadCsv(out_csv), property_csv.cols \ AddedColumns)

\* A finished run over listings that had a field named like an added column, with
\* a row that got an area code and a summary
C8_Witness ==
    /\ pc = "done"
    /\ property_csv.cols \cap AddedColumns # {}
    /\ \E i \in 1..Len(out_csv.rows) :
          /\ out_csv.rows[i]["INS_Code"] # <<>>
          /\ out_csv.rows[i]["price"] = property_csv.rows[i]["price"]
          /\ \E c \in {"top_names", "top_names_y"} :
                c \in out_csv.cols /\ out_csv.rows[i][c] # <<>>

---------------------------------------------------------------------------
(* C1: the postal-code normalizer is total: applied to a string with or without   *)
(* a comma, an int, a float, NaN or a malformed string it returns an integer or   *)
(* the missing marker and never raises.  Stated of the names file the formatter   *)
(* is run on: when the file has its postal_code column, format_postal_codes       *)
(* returns, and every formatted postal code is an integer or missing.             *)
C1_NormalizerTotal ==
    (FormatCalled /\ "postal_code" \in names_src.cols) =>
        /\ FormatReturned
        /\ \A i \in 1..Len(formatted_names.rows) :
              LET x == formatted_names.rows[i]["postal_code"] IN
              IsInteger(x) \/ x.t = "nan"

(* C2: for every listings table with its postal_code column, whatever the postal  *)
(* codes, enrich_property_data returns a table with the rows of the listings, as  *)
(* many and in the same order.                                                    *)
C2_EnrichKeepsRows ==
    (EnrichCalled /\ ListingsHavePostalCode) =>
        /\ EnrichReturned
        /\ KeepsFields(property_data, {"postal_code", "price"} \cap property_csv.cols)

(* C3: for every listings table and names table, merge_with_top_names produces a  *)
(* table with each listing row exactly once, in order, its top_names the summary  *)
(* of the row's postal code when the names have a group for it and missing        *)
(* otherwise.  Stated for listings without a top_names field of their own.        *)
C3_MergeKeepsListings ==
    (MergeCalled /\ NamesHaveColumns /\ "top_names" \notin property_csv.cols) =>
        /\ pc = "done"
        /\ LET out == ReadCsv(out_csv)
               P == top_names_pivot
           IN  /\ KeepsFields(out, property_csv.cols \ AddedColumns)
               /\ \A i \in 1..Len(out.rows) :
                     LET hits == {g \in 1..Len(P.rows) :
                                     NumEq(P.rows[g]["postal_code"],
                                           out.rows[i]["postal_code"])}
                     IN  IF hits = {} THEN IsMissing(out.rows[i]["top_names"])
                         ELSE \A g \in hits :
                                 CellEq(out.rows[i]["top_names"], P.rows[g]["top_names"])

(* C4: a listing row whose postal code is an integer listed under area A gets     *)
(* INS_Code A and the Population, Wealth_Index and Density of the demographic     *)
(* record of A, each missing when A has no record.  Stated for the codes listed   *)
(* under one area only.                                                           *)
C4_RowGetsAreaAndDemographics ==
    (EnrichCalled /\ ListingsHavePostalCode) =>
        LET L == Listings IN
        \A i \in 1..Len(L.rows) :
            LET x == L.rows[i]["postal_code"] IN
            (IsInteger(x) /\ Cardinality(AreasOf(x)) = 1) =>
                /\ EnrichReturned
                /\ NumEq(property_data.rows[i]["INS_Code"], AreaCode(First(AreasOf(x))))
                /\ HasDemographicsOf(i, AreaCode(First(AreasOf(x))))

(* C6: over listings whose postal codes are numbers or missing, a row with a      *)
(* missing postal code does not make enrich_property_data raise; the row gets a   *)
(* missing INS_Code, Population, Wealth_Index and Density.                        *)
C6_MissingPostalCodeTolerated ==
    (EnrichCalled /\ ListingsHavePostalCode) =>
        LET L == Listings IN
        (/\ \A i \in 1..Len(L.rows) : L.rows[i]["postal_code"].t \in {"float", "nan"}
         /\ \E i \in 1..Len(L.rows) : L.rows[i]["postal_code"].t = "nan") =>
            /\ EnrichReturned
            /\ \A i \in 1..Len(L.rows) : L.rows[i]["postal_code"].t = "nan" => HasNoArea(i)

(* C7: when a required column is absent from the listings, the demographic table  *)
(* or the names, the run aborts before any listing row is processed: it does not  *)
(* get past the construction of the processor, the listings get no derived        *)
(* column and no file is written.                                                 *)
C7_SchemaErrorAbortsFirst ==
    (\/ ~ListingsHavePostalCode
     \/ ~({"Code_INS", "Population", "Wealth_Index", "Density"} \subseteq postal_xlsx.cols)
     \/ ~NamesHaveColumns) =>
        /\ pc \in {"start", "constructed", "aborted"}
        /\ Exists(property_data) => property_data.cols = property_csv.cols
        /\ ~Exists(step2_csv)
        /\ ~Exists(names_csv)
        /\ ~Exists(out_csv)

(* C10: the enrichment normalizes a postal code before resolving it: over         *)
(* listings whose postal codes are strings the normalizer turns into integers,    *)
(* with a comma among them, enrich_property_data returns, and each row is         *)
(* resolved by the integer of its first comma-separated segment (missing values   *)
(* when no entry of the mapping lists it).                                        *)
C10_EnrichNormalizesFirst ==
    (EnrichCalled /\ ListingsHavePostalCode) =>
        LET L == Listings IN
        (/\ \A i \in 1..Len(L.rows) :
               /\ L.rows[i]["postal_code"].t = "str"
               /\ FormatPostalCode(L.rows[i]["postal_code"]).ok
         /\ \E i \in 1..Len(L.rows) : Contains(L.rows[i]["postal_code"].s, ",")) =>
            /\ EnrichReturned
            /\ \A i \in 1..Len(L.rows) :
                  LET x == FormatPostalCode(L.rows[i]["postal_code"]).v IN
                  IF AreasOf(x) = {} THEN HasNoArea(i)
                  ELSE NumEq(property_data.rows[i]["INS_Code"], AreaCode(First(AreasOf(x))))

====
